---- MODULE Spec2Model ----
(***************************************************************************)
(* SemanticCache of src/src/utils/cache.py: a durable table of cache       *)
(* entries (SQLite), looked up by cosine similarity of query embeddings,   *)
(* partitioned by (context_hash, model_used), with TTL expiry and LRU      *)
(* eviction.                                                               *)
(*                                                                         *)
(* Text is modelled as a sequence of one-character strings, a conversation *)
(* context as the sequence of its (key, value) items in insertion order,   *)
(* an embedding as a vector of integers, a timestamp as an integer tick.   *)
(* A similarity is kept exact as the square of the clamped cosine, n/d.    *)
(* The cache table is durable: the rows the constructor finds in the file  *)
(* at cache_db_path are part of the initial state.                         *)
(*                                                                         *)
(* RAGRetriever and HybridRetriever of src/src/rag/retriever.py over the   *)
(* vector index of src/src/rag/vector_store.py, and the chunker of         *)
(* src/data_ingestion/pdf_processor.py, each under a specification of its  *)
(* own: the three components share no state.                               *)
(*                                                                         *)
(* HealthChecker of src/src/utils/health.py, InMemoryCache of              *)
(* src/src/utils/cache.py and EmbeddingsService.encode_batch of            *)
(* src/src/rag/embeddings.py follow, again each under its own              *)
(* specification.                                                          *)
(***************************************************************************)
EXTENDS Integers, Sequences, FiniteSets, TLC

VARIABLES store, now, frame, calls, last,   \* SemanticCache
          index, rcall,                     \* vector index, retriever call
          chunker,                          \* chunk_text run
          health,                           \* HealthChecker
          mem,                              \* InMemoryCache
          batch                             \* encode_batch call

cacheVars == <<store, now, frame, calls, last>>
retrVars == <<index, rcall>>
chunkVars == <<chunker>>
sideVars == <<health, mem, batch>>
vars == <<cacheVars, retrVars, chunkVars, sideVars>>

\* no retriever call is running
NoCall ==
  [ op |-> "none", status |-> "idle", hybrid |-> FALSE, query |-> <<>>,
    top_k |-> <<>>, threshold |-> <<>>, filter |-> <<>>, max_len |-> 0,
    ref |-> [id |-> 0, document_id |-> "", embedding |-> <<>>], exclude |-> FALSE, providerOk |-> TRUE, indexOk |-> TRUE,
    encoded |-> FALSE, queried |-> FALSE, result |-> <<>>, text |-> <<>> ]

\* chunk_text is not running
NoChunking ==
  [ pc |-> "idle", status |-> "idle", arg |-> <<>>, text |-> <<>>,
    chunk_size |-> 0, chunk_overlap |-> 0, min_chunk_size |-> 0,
    start |-> 0, end |-> 0, chunks |-> <<>>, windows |-> <<>> ]

\* a HealthChecker with no check registered and no response given
NoHealth ==
  [ checks |-> <<>>,
    response |-> [status |-> "none", checks |-> <<>>, returned |-> <<>>] ]

\* no InMemoryCache is in use
NoMem == [ max_size |-> 0, cache |-> <<>>, out |-> <<>> ]

\* encode_batch is not running
NoBatch == [ status |-> "idle", texts |-> <<>>, batch_size |-> 0, failing |-> {}, result |-> <<>> ]

---------------------------------------------------------------------------
(* Bounds of the model *)

MaxTime == 2
MaxInitRows == 2
MaxCalls == 2
max_cache_size == 1
default_ttl_seconds == 2

(* Program constants *)

ThresholdNum == 19
ThresholdDen == 20
LruHeadroom == 100
EmbeddingDim == 2

---------------------------------------------------------------------------
(* Text *)

Blank == <<" ">>
Models == { "mA", "mB" }

RECURSIVE LStrip(_)
LStrip(s) ==
  IF s = <<>> THEN <<>>
  ELSE IF Head(s) = " " THEN LStrip(Tail(s)) ELSE s

RECURSIVE RStrip(_)
RStrip(s) ==
  IF s = <<>> THEN <<>>
  ELSE IF s[Len(s)] = " " THEN RStrip(SubSeq(s, 1, Len(s) - 1)) ELSE s

\* str.strip()
Strip(s) == RStrip(LStrip(s))

LowerChar(c) ==
  CASE c = "Q" -> "q"
    [] c = "P" -> "p"
    [] c = "R" -> "r"
    [] OTHER -> c

\* str.lower()
Lower(s) == [i \in 1..Len(s) |-> LowerChar(s[i])]

---------------------------------------------------------------------------
(* Conversation contexts and their hash *)

NoContext == << <<"None">> >>
BadValue == "object"
KeyOrder == <<"a", "b">>

\* context or {}
ContextOrEmpty(context) == IF context = NoContext \/ context = <<>> THEN <<>> ELSE context

\* json.dumps raises TypeError on a value that is not JSON serializable
Serializable(context) ==
  \A i \in 1..Len(ContextOrEmpty(context)) : ContextOrEmpty(context)[i][2] # BadValue

RECURSIVE SortKeys(_, _)
SortKeys(items, k) ==
  IF k > Len(KeyOrder) THEN <<>>
  ELSE SelectSeq(items, LAMBDA it : it[1] = KeyOrder[k]) \o SortKeys(items, k + 1)

\* _generate_context_hash: md5 of the key-sorted JSON text (the digest is
\* modelled by the text it is taken of)
GenerateContextHash(context) == SortKeys(context, 1)

\* _generate_query_hash: sha256 of "<lowered, stripped query>:<context_hash>"
GenerateQueryHash(query, context_hash) == <<Strip(Lower(query)), context_hash>>

---------------------------------------------------------------------------
(* Embeddings and cosine similarity *)

ZeroVector == [i \in 1..EmbeddingDim |-> 0]

\* the vectors the sentence-transformers model gives the texts of the model
ModelEncode(text) ==
  CASE text = <<"q">> -> <<4, 0>>
    [] text = <<"k">> -> <<4, 1>>
    [] text = <<"p">> -> <<0, 4>>
    [] text = <<"Q", " ">> -> <<16, 1>>
    [] OTHER -> <<1, 1>>

\* EmbeddingsService.encode_text: a blank text or a failing model gives the
\* zero vector
EncodeText(text, modelOk) ==
  IF Strip(text) = <<>> THEN ZeroVector
  ELSE IF modelOk THEN ModelEncode(text)
  ELSE ZeroVector

Min(a, b) == IF a < b THEN a ELSE b
Max(a, b) == IF a > b THEN a ELSE b

RECURSIVE DotUpTo(_, _, _)
DotUpTo(a, b, n) == IF n = 0 THEN 0 ELSE a[n] * b[n] + DotUpTo(a, b, n - 1)

\* sum(x * y for x, y in zip(a, b, strict=False))
Dot(a, b) == DotUpTo(a, b, Min(Len(a), Len(b)))

\* _calculate_similarity: 0 when a magnitude is 0, else the cosine clamped to
\* [0, 1]; the value is the fraction n/d of its square
Similarity(a, b) ==
  IF Dot(a, a) = 0 \/ Dot(b, b) = 0 THEN [n |-> 0, d |-> 1]
  ELSE [n |-> Max(0, Dot(a, b)) * Max(0, Dot(a, b)), d |-> Dot(a, a) * Dot(b, b)]

SimGreater(s, t) == s.n * t.d > t.n * s.d
SimAtLeastThreshold(s) == s.n * ThresholdDen * ThresholdDen >= ThresholdNum * ThresholdNum * s.d

---------------------------------------------------------------------------
(* Rows of the cache_entries table *)

\* _serialize_embedding / _deserialize_embedding: the JSON text of the vector
SerializeEmbedding(embedding) == <<"json", embedding>>
DeserializeEmbedding(data) == data[2]

NewRow(id, query, response, model_used, context_hash, embedding_data, ttl, t) ==
  [ id |-> id,
    query_hash |-> GenerateQueryHash(query, context_hash),
    query_text |-> query,
    query_embedding |-> embedding_data,
    response |-> response,
    model_used |-> model_used,
    context_hash |-> context_hash,
    created_at |-> t,
    last_accessed |-> t,
    access_count |-> 1,
    ttl_seconds |-> ttl,
    expires_at |-> t + ttl ]

\* the entries the table can hold at construction: two queries under each of
\* two (context, model) partitions, written at tick 0 through the INSERT
\* statement of put; in one partition the first entry expires first, in the
\* other the second; the response names the row
StoredPartitions ==
  << [ch |-> GenerateContextHash(ContextOrEmpty(NoContext)), m |-> "mA"],
     [ch |-> GenerateContextHash(<< <<"b", "2">>, <<"a", "1">> >>), m |-> "mB"] >>
StoredTtls == <<1, 2, 2, 1>>

InitRow(i) ==
  LET part == StoredPartitions[((i - 1) \div 2) + 1]
      query == << <<"q">>, <<"k">> >>[((i - 1) % 2) + 1]
  IN NewRow(i, query, <<"r", <<"1", "2", "3", "4">>[i]>>, part.m, part.ch,
            SerializeEmbedding(EncodeText(query, TRUE)), StoredTtls[i], 0)

\* query_hash is UNIQUE, id is the PRIMARY KEY
WellFormedStore(S) ==
  \A r1, r2 \in S : (r1.id = r2.id \/ r1.query_hash = r2.query_hash) => r1 = r2

InitStores ==
  { S \in SUBSET { InitRow(i) : i \in 1..Len(StoredTtls) } :
      Cardinality(S) <= MaxInitRows /\ WellFormedStore(S) }

---------------------------------------------------------------------------
(* Call frames of the worker threads *)

Workers == {1, 2}

IdleFrame ==
  [ op |-> "none", pc |-> "idle", status |-> "idle",
    q |-> <<>>, ctx |-> <<>>, model |-> "", resp |-> <<>>, ttl |-> <<>>,
    ch |-> <<>>, match |-> 0, out |-> <<>>, n |-> 0, fault |-> FALSE ]

CallFrame(op, q, ctx, model, resp, ttl) ==
  [ IdleFrame EXCEPT !.op = op, !.pc = "run", !.status = "running",
                     !.q = q, !.ctx = ctx, !.model = model, !.resp = resp, !.ttl = ttl ]

\* the call returns value kind `status` ("None", "True", "False", "response",
\* "count", "stats") or ends by raising ("raised")
\* `match` keeps the id of the entry a get has hit; while a get runs, `out`
\* and `n` are the response and access_count of its best_match tuple
Finish(f, status, out, n) ==
  [ f EXCEPT !.pc = "idle", !.status = status, !.out = out, !.n = n ]

\* the thread of worker w is outside the cache and may call into it
Ready(w) == frame[w] = IdleFrame /\ calls < MaxCalls

\* history: the last put (with non-blank text, a serializable context and no
\* store or provider error), clear or optimize that ran
NoLast ==
  [ op |-> "none", q |-> <<>>, ctx |-> <<>>, model |-> "", resp |-> <<>>, ttl |-> <<>> ]
LastPut(f) ==
  [ NoLast EXCEPT !.op = "put", !.q = f.q, !.ctx = f.ctx, !.model = f.model, !.resp = f.resp,
                  !.ttl = f.ttl ]
LastOp(op) == [ NoLast EXCEPT !.op = op ]

TypeOK ==
  /\ now \in 0..MaxTime
  /\ WellFormedStore(store)
  /\ \A w \in Workers : frame[w].pc \in {"idle", "run", "select", "update", "lru_count", "lru_delete"}

---------------------------------------------------------------------------
(* Store statements *)

\* DELETE FROM cache_entries WHERE expires_at < now
DeleteExpired(S, t) == { r \in S : ~(r.expires_at < t) }

\* variant: the WHERE clause without the model
SelectCandidates_AnyModel(S, context_hash, model_used, t) ==
  { r \in S : r.context_hash = context_hash /\ r.expires_at > t }

\* SELECT ... WHERE context_hash = ? AND model_used = ? AND expires_at > ?
SelectCandidates(S, context_hash, model_used, t) ==
  { r \in S : r.context_hash = context_hash /\ r.model_used = model_used /\ r.expires_at > t }

\* cursor.fetchall(): the rows in table order
RECURSIVE FetchAll(_)
FetchAll(S) ==
  IF S = {} THEN <<>>
  ELSE LET first == CHOOSE r \in S : \A x \in S : r.id <= x.id
       IN <<first>> \o FetchAll(S \ {first})

\* variant: the first candidate at or above the threshold wins
RECURSIVE BestMatch_FirstAbove(_, _, _, _, _)
BestMatch_FirstAbove(candidates, i, query_embedding, best_match, best_similarity) ==
  IF i > Len(candidates) THEN best_match
  ELSE LET similarity == Similarity(query_embedding,
                                    DeserializeEmbedding(candidates[i].query_embedding))
       IN IF best_match = 0 /\ SimAtLeastThreshold(similarity)
          THEN BestMatch_FirstAbove(candidates, i + 1, query_embedding, candidates[i].id, similarity)
          ELSE BestMatch_FirstAbove(candidates, i + 1, query_embedding, best_match, best_similarity)

\* the loop of get over the candidates: the running best match (a row id, 0
\* for None) and its similarity
RECURSIVE BestMatch(_, _, _, _, _)
BestMatch(candidates, i, query_embedding, best_match, best_similarity) ==
  IF i > Len(candidates) THEN best_match
  ELSE LET similarity == Similarity(query_embedding,
                                    DeserializeEmbedding(candidates[i].query_embedding))
       IN IF SimGreater(similarity, best_similarity) /\ SimAtLeastThreshold(similarity)
          THEN BestMatch(candidates, i + 1, query_embedding, candidates[i].id, similarity)
          ELSE BestMatch(candidates, i + 1, query_embedding, best_match, best_similarity)

\* variant: the UPDATE without its WHERE clause
UpdateAccess_EveryRow(S, id, t) ==
  { [r EXCEPT !.last_accessed = t, !.access_count = r.access_count + 1] : r \in S }

\* variant: a hit also restarts the entry's time to live
UpdateAccess_SlidingExpiry(S, id, t) ==
  { IF r.id = id
    THEN [r EXCEPT !.last_accessed = t, !.access_count = r.access_count + 1,
                   !.expires_at = t + r.ttl_seconds]
    ELSE r : r \in S }

\* UPDATE ... SET last_accessed = ?, access_count = access_count + 1 WHERE id = ?
UpdateAccess(S, id, t) ==
  { IF r.id = id
    THEN [r EXCEPT !.last_accessed = t, !.access_count = r.access_count + 1]
    ELSE r : r \in S }

\* INSERT OR REPLACE: the rows in conflict on id or query_hash are deleted
InsertOrReplace(S, row) ==
  { r \in S : r.id # row.id /\ r.query_hash # row.query_hash } \cup {row}

\* DELETE ... WHERE id IN (SELECT id ... ORDER BY last_accessed ASC LIMIT n):
\* the possible victim sets (rows of equal last_accessed come in any order)
LruVictims(S, n) ==
  { V \in SUBSET S :
      /\ Cardinality(V) = Min(n, Cardinality(S))
      /\ \A v \in V : \A r \in S \ V : v.last_accessed <= r.last_accessed }

\* uuid4(): an id no row and no call holds
FreshId ==
  LET used == {0} \cup { r.id : r \in store } \cup { frame[w].match : w \in Workers }
  IN 1 + (CHOOSE m \in used : \A x \in used : x <= m)

---------------------------------------------------------------------------
(* get *)

\* hash(query) % 100 == 0 decides the sweep; the sweep can fail on the store
Sweeps == {"skipped", "runs", "fails"}

\* lines 241-249: blank check, the occasional expiry sweep, the context hash
GetCall(w, query, context, model_used, sweep) ==
  /\ Ready(w)
  /\ LET f == CallFrame("get", query, context, model_used, <<>>, <<>>)
     IN IF Strip(query) = <<>>
        THEN /\ frame' = [frame EXCEPT ![w] = Finish(f, "None", <<>>, 0)]
             /\ UNCHANGED store
        ELSE IF sweep = "fails"
        THEN /\ frame' = [frame EXCEPT ![w] = Finish([f EXCEPT !.fault = TRUE], "raised", <<>>, 0)]
             /\ UNCHANGED store
        ELSE /\ store' = IF sweep = "runs" THEN DeleteExpired(store, now) ELSE store
             /\ IF ~Serializable(context)
                THEN frame' = [frame EXCEPT ![w] = Finish(f, "raised", <<>>, 0)]
                ELSE frame' = [frame EXCEPT ![w] =
                                 [f EXCEPT !.pc = "select",
                                           !.ch = GenerateContextHash(ContextOrEmpty(context))]]
  /\ UNCHANGED now
  /\ calls' = calls + 1
  /\ UNCHANGED last
  /\ UNCHANGED <<retrVars, chunkVars, sideVars>>

\* lines 251-296: embed the query, select the candidates, scan for the best
GetSelect(w, modelOk, storeOk) ==
  /\ frame[w].op = "get" /\ frame[w].pc = "select"
  /\ LET f == [frame[w] EXCEPT !.fault = frame[w].fault \/ ~modelOk \/ ~storeOk]
         query_embedding == EncodeText(f.q, modelOk)
         candidates == FetchAll(SelectCandidates(store, f.ch, f.model, now))
         best_match == BestMatch(candidates, 1, query_embedding, 0, [n |-> 0, d |-> 1])
     IN IF ~storeOk
        THEN frame' = [frame EXCEPT ![w] = Finish(f, "None", <<>>, 0)]
        ELSE IF best_match = 0
        THEN frame' = [frame EXCEPT ![w] = Finish(f, "None", <<>>, 0)]
        ELSE frame' = [frame EXCEPT ![w] =
                         [f EXCEPT !.pc = "update", !.match = best_match,
                                   !.out = (CHOOSE r \in store : r.id = best_match).response,
                                   !.n = (CHOOSE r \in store : r.id = best_match).access_count]]
  /\ UNCHANGED <<store, now, calls, last>>
  /\ UNCHANGED <<retrVars, chunkVars, sideVars>>

\* lines 298-314: record the access and return the response
GetUpdate(w, storeOk) ==
  /\ frame[w].op = "get" /\ frame[w].pc = "update"
  /\ IF ~storeOk
     THEN /\ frame' = [frame EXCEPT ![w] = Finish([frame[w] EXCEPT !.fault = TRUE, !.match = 0], "None", <<>>, 0)]
          /\ UNCHANGED store
     ELSE /\ store' = UpdateAccess(store, frame[w].match, now)
          /\ frame' = [frame EXCEPT ![w] = Finish(frame[w], "response", frame[w].out, 0)]
  /\ UNCHANGED now
  /\ UNCHANGED <<calls, last>>
  /\ UNCHANGED <<retrVars, chunkVars, sideVars>>

---------------------------------------------------------------------------
(* put *)

\* ttl_seconds or self.default_ttl_seconds; the argument <<>> is None, <<n>>
\* is the integer n
TtlOrDefault(ttl_seconds) ==
  IF ttl_seconds = <<>> \/ ttl_seconds[1] = 0 THEN default_ttl_seconds ELSE ttl_seconds[1]

\* the keyword arguments put passes to CacheEntry(...)
PutEntryKeywords ==
  {"id", "query_hash", "query_embedding", "response", "model_used", "context_hash",
   "created_at", "last_accessed", "access_count", "ttl_seconds"}

\* variant: a CacheEntry that declares the fields put passes
CacheEntryInitOk_PutFields(keywords) == keywords \subseteq PutEntryKeywords

\* the dataclass CacheEntry has the fields key, value, created_at and
\* expires_at, the first two without a default; the generated __init__ raises
\* TypeError on an unexpected or a missing argument
CacheEntryInitOk(keywords) ==
  /\ keywords \subseteq {"key", "value", "created_at", "expires_at"}
  /\ {"key", "value"} \subseteq keywords

\* what can fail in a put: the provider, and the store statements it reaches
PutFaults ==
  IF CacheEntryInitOk(PutEntryKeywords)
  THEN {"none", "model", "insert", "lru"}
  ELSE {"none", "model"}

\* lines 341-404 in one step
Put(w, query, response, context, model_used, ttl_seconds, fault) ==
  /\ Ready(w)
  /\ LET modelOk == fault # "model"
         insertOk == fault # "insert"
         lruOk == fault # "lru"
         f == CallFrame("put", query, context, model_used, response, ttl_seconds)
         ttl == TtlOrDefault(ttl_seconds)
         context_hash == GenerateContextHash(ContextOrEmpty(context))
         query_embedding == EncodeText(query, modelOk)
         row == NewRow(FreshId, query, response, model_used, context_hash,
                       SerializeEmbedding(query_embedding), ttl, now)
         inserted == InsertOrReplace(store, row)
         current_count == Cardinality(inserted)
     IN IF Strip(query) = <<>> \/ Strip(response) = <<>>
        THEN /\ frame' = [frame EXCEPT ![w] = Finish(f, "False", <<>>, 0)]
             /\ UNCHANGED store
        ELSE IF ~Serializable(context)
        THEN /\ frame' = [frame EXCEPT ![w] = Finish(f, "raised", <<>>, 0)]
             /\ UNCHANGED store
        ELSE IF ~CacheEntryInitOk(PutEntryKeywords)
        THEN /\ frame' = [frame EXCEPT ![w] = Finish([f EXCEPT !.fault = ~modelOk], "False", <<>>, 0)]
             /\ UNCHANGED store
        ELSE IF ~insertOk
        THEN /\ frame' = [frame EXCEPT ![w] = Finish([f EXCEPT !.fault = TRUE], "False", <<>>, 0)]
             /\ UNCHANGED store
        ELSE IF ~lruOk
        THEN /\ frame' = [frame EXCEPT ![w] = Finish([f EXCEPT !.fault = TRUE], "False", <<>>, 0)]
             /\ store' = inserted
        ELSE /\ frame' = [frame EXCEPT ![w] = Finish([f EXCEPT !.fault = ~modelOk], "True", <<>>, 0)]
             /\ IF current_count <= max_cache_size
                THEN store' = inserted
                ELSE \E V \in LruVictims(inserted, current_count - max_cache_size + LruHeadroom) :
                       store' = inserted \ V
  /\ UNCHANGED now
  /\ calls' = calls + 1
  /\ last' = IF Strip(query) # <<>> /\ Strip(response) # <<>> /\ Serializable(context)
                /\ fault = "none"
             THEN LastPut(frame'[w])
             ELSE last
  /\ UNCHANGED <<retrVars, chunkVars, sideVars>>

---------------------------------------------------------------------------
(* clear *)

\* variant: only the expired rows are deleted
Clear_OnlyExpired(w, storeOk) ==
  /\ Ready(w)
  /\ LET f == CallFrame("clear", <<>>, <<>>, "", <<>>, <<>>)
     IN IF ~storeOk
        THEN /\ frame' = [frame EXCEPT ![w] = Finish([f EXCEPT !.fault = TRUE], "raised", <<>>, 0)]
             /\ UNCHANGED store
        ELSE /\ frame' = [frame EXCEPT ![w] =
                            Finish(f, "count", <<>>, Cardinality(store \ DeleteExpired(store, now)))]
             /\ store' = DeleteExpired(store, now)
  /\ UNCHANGED now
  /\ calls' = calls + 1
  /\ last' = IF storeOk THEN LastOp("clear") ELSE last
  /\ UNCHANGED <<retrVars, chunkVars, sideVars>>

\* lines 412-418: the call has no handler, a store error propagates
Clear(w, storeOk) ==
  /\ Ready(w)
  /\ LET f == CallFrame("clear", <<>>, <<>>, "", <<>>, <<>>)
     IN IF ~storeOk
        THEN /\ frame' = [frame EXCEPT ![w] = Finish([f EXCEPT !.fault = TRUE], "raised", <<>>, 0)]
             /\ UNCHANGED store
        ELSE /\ frame' = [frame EXCEPT ![w] = Finish(f, "count", <<>>, Cardinality(store))]
             /\ store' = {}
  /\ UNCHANGED now
  /\ calls' = calls + 1
  /\ last' = IF storeOk THEN LastOp("clear") ELSE last
  /\ UNCHANGED <<retrVars, chunkVars, sideVars>>

---------------------------------------------------------------------------
(* optimize: _cleanup_expired, then _cleanup_lru in two statements *)

\* line 475, _cleanup_expired (lines 175-187)
OptimizeCall(w, storeOk) ==
  /\ Ready(w)
  /\ LET f == CallFrame("optimize", <<>>, <<>>, "", <<>>, <<>>)
     IN IF ~storeOk
        THEN /\ frame' = [frame EXCEPT ![w] = Finish([f EXCEPT !.fault = TRUE], "raised", <<>>, 0)]
             /\ UNCHANGED store
        ELSE /\ frame' = [frame EXCEPT ![w] = [f EXCEPT !.pc = "lru_count"]]
             /\ store' = DeleteExpired(store, now)
  /\ UNCHANGED now
  /\ calls' = calls + 1
  /\ last' = IF storeOk THEN LastOp("optimize") ELSE last
  /\ UNCHANGED <<retrVars, chunkVars, sideVars>>

\* lines 196-206: SELECT COUNT(*), the early return, entries_to_remove
CleanupLruCount(w, storeOk) ==
  /\ frame[w].op = "optimize" /\ frame[w].pc = "lru_count"
  /\ LET current_count == Cardinality(store)
     IN IF ~storeOk
        THEN frame' = [frame EXCEPT ![w] = Finish([frame[w] EXCEPT !.fault = TRUE], "raised", <<>>, 0)]
        ELSE IF current_count <= max_cache_size
        THEN frame' = [frame EXCEPT ![w] = Finish(frame[w], "stats", <<>>, 0)]
        ELSE frame' = [frame EXCEPT ![w] =
                         [frame[w] EXCEPT !.pc = "lru_delete",
                                          !.n = current_count - max_cache_size + LruHeadroom]]
  /\ UNCHANGED <<store, now, calls, last>>
  /\ UNCHANGED <<retrVars, chunkVars, sideVars>>

\* lines 208-221: the DELETE of the oldest entries_to_remove rows
CleanupLruDelete(w, storeOk) ==
  /\ frame[w].op = "optimize" /\ frame[w].pc = "lru_delete"
  /\ IF ~storeOk
     THEN /\ frame' = [frame EXCEPT ![w] = Finish([frame[w] EXCEPT !.fault = TRUE], "raised", <<>>, 0)]
          /\ UNCHANGED store
     ELSE \E V \in LruVictims(store, frame[w].n) :
            /\ store' = store \ V
            /\ frame' = [frame EXCEPT ![w] = Finish(frame[w], "stats", <<>>, Cardinality(V))]
  /\ UNCHANGED now
  /\ UNCHANGED <<calls, last>>
  /\ UNCHANGED <<retrVars, chunkVars, sideVars>>

---------------------------------------------------------------------------
(* time *)

\* the return statement of a call hands the result to the caller, whose
\* thread is then free for its next call
Return(w) ==
  /\ frame[w].pc = "idle"
  /\ frame[w].op # "none"
  /\ frame' = [frame EXCEPT ![w] = IdleFrame]
  /\ UNCHANGED <<store, now, calls, last>>
  /\ UNCHANGED <<retrVars, chunkVars, sideVars>>

\* datetime.utcnow() moves on between any two statements
Tick ==
  /\ now < MaxTime
  /\ now' = now + 1
  /\ UNCHANGED <<store, frame, calls, last>>
  /\ UNCHANGED <<retrVars, chunkVars, sideVars>>

---------------------------------------------------------------------------
(* One caller *)

Init ==
  /\ store \in InitStores
  /\ now = 0
  /\ frame = [w \in Workers |-> IdleFrame]
  /\ calls = 0
  /\ last = NoLast
  /\ index = <<>>
  /\ rcall = NoCall
  /\ chunker = NoChunking
  /\ health = NoHealth
  /\ mem = NoMem
  /\ batch = NoBatch

Step(w) ==
  \/ \E query \in { <<"Q", " ">>, <<"k">>, <<"p">>, Blank }, context \in { NoContext, << <<"a", "1">>, <<"b", "2">> >>, << <<"b", "2">>, <<"a", "1">> >>, << <<"a", BadValue>> >> }, model_used \in Models, sweep \in Sweeps :
       GetCall(w, query, context, model_used, sweep)
  \/ \E modelOk \in BOOLEAN, storeOk \in BOOLEAN : GetSelect(w, modelOk, storeOk)
  \/ \E storeOk \in BOOLEAN : GetUpdate(w, storeOk)
  \/ \E query \in { <<"Q", " ">>, Blank }, response \in { <<"r">>, Blank },
        context \in { NoContext, << <<"a", BadValue>> >> }, model_used \in Models,
        ttl_seconds \in { <<>>, <<0>> }, fault \in PutFaults :
       Put(w, query, response, context, model_used, ttl_seconds, fault)
  \/ \E storeOk \in BOOLEAN : Clear(w, storeOk)
  \/ \E storeOk \in BOOLEAN : OptimizeCall(w, storeOk)
  \/ \E storeOk \in BOOLEAN : CleanupLruCount(w, storeOk)
  \/ \E storeOk \in BOOLEAN : CleanupLruDelete(w, storeOk)
  \/ Return(w)

Next == Step(1) \/ Tick

Spec == Init /\ [][Next]_vars

---------------------------------------------------------------------------
(* Two callers running get at the same time *)

GetStep(w) ==
  \/ \E query \in { <<"Q", " ">>, <<"k">> }, sweep \in Sweeps : GetCall(w, query, NoContext, "mA", sweep)
  \/ \E modelOk \in BOOLEAN, storeOk \in BOOLEAN : GetSelect(w, modelOk, storeOk)
  \/ \E storeOk \in BOOLEAN : GetUpdate(w, storeOk)
  \/ Return(w)

NextConc == (\E w \in Workers : GetStep(w)) \/ Tick

SpecConc == Init /\ [][NextConc]_vars

---------------------------------------------------------------------------
(* Two callers running put and optimize at the same time: the statements of
   _cleanup_lru interleave, each runs on its own connection *)

EvictStep(w) ==
  \/ \E model_used \in Models : Put(w, <<"Q", " ">>, <<"r">>, NoContext, model_used, <<>>, "none")
  \/ OptimizeCall(w, TRUE)
  \/ CleanupLruCount(w, TRUE)
  \/ CleanupLruDelete(w, TRUE)
  \/ Return(w)

NextEvict == (\E w \in Workers : EvictStep(w)) \/ Tick

SpecEvict == Init /\ [][NextEvict]_vars

---------------------------------------------------------------------------
(* Properties *)

Returned(f) == f.pc = "idle" /\ f.status # "idle"

\* the call ran with a well-formed context and met no store or provider error
Undisturbed(f) == ~f.fault /\ Serializable(f.ctx)

UsablePut(f) ==
  f.op = "put" /\ Returned(f) /\ Strip(f.q) # <<>> /\ Strip(f.resp) # <<>> /\ Undisturbed(f)

SameKey(f, l) == f.q = l.q /\ f.ctx = l.ctx /\ f.model = l.model

\* C1: a put of a non-blank query and response, with a working store and
\* embedding provider, returns True and leaves an entry holding the response;
\* the get of the same query, context and model that follows it before expiry,
\* with no clear or eviction in between, returns exactly that response.
C1_RoundTrip ==
  \A w \in Workers :
    /\ UsablePut(frame[w]) =>
         /\ frame[w].status = "True"
         /\ \E r \in store : r.query_text = frame[w].q /\ r.response = frame[w].resp
    /\ ( /\ frame[w].op = "get" /\ Returned(frame[w]) /\ Undisturbed(frame[w])
         /\ last.op = "put" /\ last.ttl = <<>> /\ SameKey(frame[w], last)
         /\ now < default_ttl_seconds ) =>
         /\ frame[w].status = "response"
         /\ frame[w].out = last.resp

C7_GetNeverRaises ==
  \A w \in Workers : frame[w].op = "get" => frame[w].status # "raised"

\* the rows get may return for the call of frame f, and their similarity to
\* its query
CandidatesOf(f, S, t) ==
  { r \in S : /\ r.context_hash = GenerateContextHash(ContextOrEmpty(f.ctx))
              /\ r.model_used = f.model
              /\ r.expires_at > t }
SimOf(f, r) == Similarity(EncodeText(f.q, TRUE), DeserializeEmbedding(r.query_embedding))

GetStepOf(w) ==
  frame'[w].op = "get" /\ (calls' = calls + 1 \/ frame[w].pc \in {"select", "update"})

\* C4: with no store or provider error, get returns the response of the
\* candidate (same context hash and model, not expired) of highest cosine
\* similarity when that similarity reaches the threshold, and none when no
\* candidate reaches it.
C4_BestCandidate ==
  [][ \A w \in Workers :
        /\ (frame[w].pc = "select" /\ frame'[w].pc # "select" /\ Undisturbed(frame'[w])) =>
             LET cands == CandidatesOf(frame[w], store, now)
                 reaching == { r \in cands : SimAtLeastThreshold(SimOf(frame[w], r)) }
             IN IF reaching = {}
                THEN frame'[w].pc = "idle" /\ frame'[w].status = "None"
                ELSE /\ frame'[w].pc = "update"
                     /\ \E r \in reaching :
                          /\ r.id = frame'[w].match
                          /\ r.response = frame'[w].out
                          /\ \A c \in cands : ~SimGreater(SimOf(frame[w], c), SimOf(frame[w], r))
        /\ (frame[w].pc = "update" /\ frame'[w].pc = "idle" /\ Undisturbed(frame'[w])) =>
             frame'[w].status = "response" /\ frame'[w].out = frame[w].out
    ]_vars

\* a hit on the later of two candidates that both reach the threshold
C4_Witness ==
  \E w \in Workers :
    /\ frame[w].op = "get" /\ frame[w].status = "response"
    /\ \E r, c \in CandidatesOf(frame[w], store, now) :
         /\ r.id = frame[w].match /\ c.id < r.id
         /\ SimAtLeastThreshold(SimOf(frame[w], c))
         /\ SimGreater(SimOf(frame[w], r), SimOf(frame[w], c))

\* C5: the entry a get hits has the context hash of the get's context and the
\* get's model, however similar the entries of other contexts and models are.
C5_Partition ==
  \A w \in Workers :
    (frame[w].op = "get" /\ (frame[w].pc = "update" \/ frame[w].status = "response")) =>
      \E r \in store :
        /\ r.id = frame[w].match
        /\ r.response = frame[w].out
        /\ r.context_hash = GenerateContextHash(ContextOrEmpty(frame[w].ctx))
        /\ r.model_used = frame[w].model

\* a hit while an entry of another context and model is more similar
C5_Witness ==
  \E w \in Workers :
    /\ frame[w].op = "get" /\ frame[w].status = "response"
    /\ \E r, o \in store :
         /\ r.id = frame[w].match
         /\ o.context_hash # r.context_hash /\ o.model_used # r.model_used
         /\ o.expires_at > now
         /\ SimGreater(SimOf(frame[w], o), SimOf(frame[w], r))

\* C6: a get that hits entry e sets e.last_accessed to the current time and
\* adds 1 to e.access_count and changes nothing else in the store; any other
\* step of a get adds no entry and leaves every non-expired entry as it is.
C6_GetFrame ==
  [][ \A w \in Workers :
        GetStepOf(w) =>
          IF frame[w].pc = "update" /\ frame'[w].status = "response"
          THEN \E e \in store :
                 /\ e.id = frame[w].match
                 /\ store' = (store \ {e}) \cup
                      { [e EXCEPT !.last_accessed = now, !.access_count = e.access_count + 1] }
          ELSE /\ store' \subseteq store
               /\ \A r \in store : r.expires_at > now => r \in store'
    ]_vars

\* a hit, after time has passed, next to an entry that was not hit
C6_Witness ==
  \E w \in Workers :
    /\ frame[w].op = "get" /\ frame[w].status = "response" /\ now > 0
    /\ \E e, o \in store :
         /\ e.id = frame[w].match /\ e.access_count = 2 /\ e.last_accessed = now
         /\ o.id # e.id /\ o.access_count = 1 /\ o.last_accessed = 0 /\ o.expires_at > now

C9_ConcurrentHits ==
  [][ /\ \A r \in store : \A k \in store' :
           k.id = r.id =>
             /\ k.created_at = r.created_at
             /\ k.ttl_seconds = r.ttl_seconds
             /\ k.expires_at = r.expires_at
             /\ k.access_count >= r.access_count
      /\ \A w \in Workers :
           (frame[w].pc = "update" /\ frame'[w].status = "response") =>
             \A e \in store :
               e.id = frame[w].match =>
                 [e EXCEPT !.last_accessed = now, !.access_count = e.access_count + 1] \in store'
    ]_vars

\* two gets hit the same entry: one has returned, the other read the entry
\* before that one's update and has its own update still to do
C9_Witness ==
  \E w, v \in Workers :
    /\ w # v
    /\ frame[w].op = "get" /\ frame[w].status = "response"
    /\ frame[v].op = "get" /\ frame[v].pc = "update" /\ frame[v].n = 1
    /\ frame[w].match = frame[v].match
    /\ \E e \in store : e.id = frame[w].match /\ e.access_count = 2

\* C10: clear returns the number of entries the store held and leaves it
\* empty, and until the next put every get that meets no error returns none.
C10_ClearEmpties ==
  [][ \A w \in Workers :
        /\ (calls' = calls + 1 /\ frame'[w].op = "clear" /\ frame'[w].status = "count") =>
             frame'[w].n = Cardinality(store) /\ store' = {}
        /\ (GetStepOf(w) /\ last.op = "clear" /\ Returned(frame'[w]) /\ Undisturbed(frame'[w])) =>
             frame'[w].status = "None"
    ]_vars

\* a get of a non-blank query that ran to its end after a clear
C10_Witness ==
  \E w \in Workers :
    /\ last.op = "clear" /\ store = {}
    /\ frame[w].op = "get" /\ frame[w].status = "None" /\ Undisturbed(frame[w])
    /\ Strip(frame[w].q) # <<>> /\ frame[w].ch # <<>>

\* the step is a put of worker w, of non-blank text, that met no error
UsablePutStep(w) == calls' = calls + 1 /\ UsablePut(frame'[w])

\* the rows that hold what the put of frame f was given, written at tick t
WrittenBy(f, S, t) ==
  { r \in S : /\ r.query_text = f.q /\ r.response = f.resp /\ r.model_used = f.model
              /\ r.context_hash = GenerateContextHash(ContextOrEmpty(f.ctx))
              /\ r.created_at = t }

\* C23: a put under one model leaves the entry of another model in place:
\* when put(q, r2, ctx, B) follows put(q, r1, ctx, A), with room in the store
\* and before the first entry expires, the store still holds the entry of A
\* with response r1 under the key of q for get(q, ctx, A) to return.
C23_ModelsDoNotInterfere ==
  [][ \A w \in Workers :
        ( /\ UsablePutStep(w)
          /\ last.op = "put" /\ last.ttl = <<>>
          /\ last.q = frame'[w].q /\ last.ctx = frame'[w].ctx /\ last.model # frame'[w].model
          /\ Cardinality(store) < max_cache_size
          /\ now < default_ttl_seconds ) =>
          \E r \in store' :
            /\ r.model_used = last.model /\ r.response = last.resp
            /\ r.query_hash =
                 GenerateQueryHash(last.q, GenerateContextHash(ContextOrEmpty(last.ctx)))
            /\ r.expires_at > now
    ]_vars

---------------------------------------------------------------------------
(* Retriever: text, scores, the vector index *)

\* constructor arguments of the retriever and the largest index explored
default_top_k == 2
MaxChunks == 2

\* scores, thresholds and distances are counted in tenths; a score is kept
\* exact as the fraction n/d with d > 0
SimilarityThreshold == 7
HybridSemanticThreshold == 5
KeywordWeight == 3
OverFetch == 2
TruncationNote == 50
MeaningfulSpace == 100
SimilarTopK == 3

IsSpace(c) == c \in {" ", "\n"}

RECURSIVE LStripWs(_)
LStripWs(s) ==
  IF s = <<>> THEN <<>>
  ELSE IF IsSpace(Head(s)) THEN LStripWs(Tail(s)) ELSE s

RECURSIVE RStripWs(_)
RStripWs(s) ==
  IF s = <<>> THEN <<>>
  ELSE IF IsSpace(s[Len(s)]) THEN RStripWs(SubSeq(s, 1, Len(s) - 1)) ELSE s

\* str.strip() on text with newlines
StripWs(s) == RStripWs(LStripWs(s))

\* str.split(): the maximal runs of non-whitespace, as a set (set(...))
WordEnd(s, i) ==
  CHOOSE j \in i..Len(s) :
    /\ j = Len(s) \/ IsSpace(s[j + 1])
    /\ \A k \in i..(j - 1) : ~IsSpace(s[k + 1])

SplitTerms(s) ==
  { SubSeq(s, i, WordEnd(s, i)) :
      i \in { k \in 1..Len(s) : ~IsSpace(s[k]) /\ (k = 1 \/ IsSpace(s[k - 1])) } }

Terms(s) == SplitTerms(Lower(s))

Score(n, d) == [n |-> n, d |-> d]
Tenths(t) == Score(t, 10)
ScoreGE(a, b) == a.n * b.d >= b.n * a.d

\* an optional argument: <<>> is None, <<v>> the value v
IsNone(arg) == arg = <<>>

\* list[:k]
SliceTo(s, k) ==
  IF k >= 0 THEN SubSeq(s, 1, Min(k, Len(s)))
  ELSE SubSeq(s, 1, Max(Len(s) + k, 0))

\* the chunks an index can hold: document, title, content, and the distance
\* the index reports for the chunk from the embedding of the query and from
\* the zero vector
ChunkKinds ==
  { [document_id |-> "d1", title |-> <<"T">>, content |-> <<"q", " ", "k">>,
     distance |-> 0 - 2, zero_distance |-> 10],
    [document_id |-> "d1", title |-> <<"T">>, content |-> <<"q">>,
     distance |-> 2, zero_distance |-> 10],
    [document_id |-> "d2", title |-> <<"U">>, content |-> <<"p">>,
     distance |-> 4, zero_distance |-> 3],
    [document_id |-> "d2", title |-> <<"U">>, content |-> <<"k", "\n", "q">>,
     distance |-> 4, zero_distance |-> 10],
    [document_id |-> "d1", title |-> <<"T">>, content |-> [i \in 1..200 |-> "p"],
     distance |-> 0, zero_distance |-> 12],
    [document_id |-> "d2", title |-> <<"U">>, content |-> <<"q">>,
     distance |-> 12, zero_distance |-> 10],
    [document_id |-> "d1", title |-> <<"T">>, content |-> <<"k">>,
     distance |-> 6, zero_distance |-> 10] }

ChunkAt(idx, i) ==
  [ id |-> i, document_id |-> idx[i].document_id, title |-> idx[i].title,
    content |-> idx[i].content ]

DistanceFrom(c, query_embedding) ==
  IF query_embedding = ZeroVector THEN c.zero_distance ELSE c.distance

\* the nearest of the chunks `ids`, the earliest inserted among equals
Nearest(idx, ids, query_embedding) ==
  CHOOSE i \in ids :
    \A j \in ids :
      \/ DistanceFrom(idx[i], query_embedding) < DistanceFrom(idx[j], query_embedding)
      \/ /\ DistanceFrom(idx[i], query_embedding) = DistanceFrom(idx[j], query_embedding)
         /\ i <= j

RECURSIVE RankByDistance(_, _, _, _)
RankByDistance(idx, ids, query_embedding, ranked) ==
  IF ids = {} THEN ranked
  ELSE RankByDistance(idx, ids \ {Nearest(idx, ids, query_embedding)}, query_embedding,
                      Append(ranked, Nearest(idx, ids, query_embedding)))

Matches(c, metadata_filter) ==
  IsNone(metadata_filter) \/ c.document_id = metadata_filter[1]

\* collection.query: the chunks passing the where filter, nearest first
\* (equal distances in insertion order), at most n_results of them
CollectionQuery(idx, query_embedding, n_results, metadata_filter) ==
  SliceTo(RankByDistance(idx,
                         { i \in 1..Len(idx) : Matches(idx[i], metadata_filter) },
                         query_embedding, <<>>),
          n_results)

\* vector_store.py:176-209: similarity is 1 - distance
ChunksWithScores(idx, ranked, query_embedding) ==
  [ k \in 1..Len(ranked) |->
      [ chunk |-> ChunkAt(idx, ranked[k]),
        similarity_score |->
          Tenths(10 - DistanceFrom(idx[ranked[k]], query_embedding)) ] ]

\* vector_store.py:164-216: an error of the index (it is down, or n_results
\* is not positive) gives the empty list
SearchSimilar(idx, query_embedding, n_results, metadata_filter, indexOk) ==
  IF ~indexOk \/ n_results <= 0 THEN <<>>
  ELSE ChunksWithScores(idx,
                        CollectionQuery(idx, query_embedding, n_results, metadata_filter),
                        query_embedding)

---------------------------------------------------------------------------
(* Retriever: the operations *)

WithScore(chunk, score) ==
  [ id |-> chunk.id, document_id |-> chunk.document_id, title |-> chunk.title,
    content |-> chunk.content, relevance_score |-> score ]

InsertAt(sorted, x, k) ==
  SubSeq(sorted, 1, k) \o <<x>> \o SubSeq(sorted, k + 1, Len(sorted))

InsertByRelevance_Ascending(sorted, x) ==
  InsertAt(sorted, x,
           Cardinality({ i \in 1..Len(sorted) :
                           ScoreGE(x.relevance_score, sorted[i].relevance_score) }))

\* list.sort(key=relevance_score, reverse=True): stable, equal scores keep
\* their order
InsertByRelevance(sorted, x) ==
  InsertAt(sorted, x,
           Cardinality({ i \in 1..Len(sorted) :
                           ScoreGE(sorted[i].relevance_score, x.relevance_score) }))

RECURSIVE SortByRelevance(_)
SortByRelevance(chunks) ==
  IF chunks = <<>> THEN <<>>
  ELSE InsertByRelevance(SortByRelevance(SubSeq(chunks, 1, Len(chunks) - 1)),
                         chunks[Len(chunks)])

FilterByThreshold(chunks, threshold) ==
  SelectSeq(chunks, LAMBDA c : ScoreGE(c.relevance_score, threshold))

ThresholdOrDefault(similarity_threshold) ==
  IF IsNone(similarity_threshold) THEN Tenths(SimilarityThreshold)
  ELSE Tenths(similarity_threshold[1])

TopKOrDefault(top_k) == IF IsNone(top_k) THEN default_top_k ELSE top_k[1]

BlankQuery_OnlyEmpty(query) == query = <<>>

\* retriever.py:63
BlankQuery(query) == StripWs(query) = <<>>

\* retriever.py:87-91
Scored(results) ==
  [ i \in 1..Len(results) |-> WithScore(results[i].chunk, results[i].similarity_score) ]

\* RAGRetriever.search, retriever.py:63-102
Search(idx, query, top_k, metadata_filter, similarity_threshold, providerOk, indexOk) ==
  IF BlankQuery(query) THEN [result |-> <<>>, encoded |-> FALSE, queried |-> FALSE]
  ELSE [ result |->
           SliceTo(SortByRelevance(
                     FilterByThreshold(
                       Scored(SearchSimilar(idx, EncodeText(query, providerOk),
                                            TopKOrDefault(top_k) * OverFetch,
                                            metadata_filter, indexOk)),
                       ThresholdOrDefault(similarity_threshold))),
                   TopKOrDefault(top_k)),
         encoded |-> TRUE, queried |-> TRUE ]

\* HybridRetriever._keyword_search, retriever.py:295-305
OverlapScore(query_terms, content_terms) ==
  IF Max(Cardinality(query_terms), Cardinality(content_terms)) > 0
  THEN Score(Cardinality(query_terms \cap content_terms),
             Max(Cardinality(query_terms), Cardinality(content_terms)))
  ELSE Score(0, 1)

\* retriever.py:351-354, semantic_weight = 1.0 - keyword_weight
HybridScore(semantic_score, keyword_score) ==
  Score((10 - KeywordWeight) * semantic_score.n * keyword_score.d
          + KeywordWeight * keyword_score.n * semantic_score.d,
        10 * semantic_score.d * keyword_score.d)

\* retriever.py:346-356
Rescored(query, semantic_chunks) ==
  [ i \in 1..Len(semantic_chunks) |->
      WithScore(semantic_chunks[i],
                HybridScore(semantic_chunks[i].relevance_score,
                            OverlapScore(Terms(query), Terms(semantic_chunks[i].content)))) ]

\* retriever.py:370, top_k or self.default_top_k: None and 0 are both false
FinalTopK(top_k) == IF top_k # <<>> /\ top_k[1] # 0 THEN top_k[1] ELSE default_top_k

\* retriever.py:339-371
HybridRerank(semantic, query, top_k, similarity_threshold) ==
  IF semantic.result = <<>> THEN semantic
  ELSE [ semantic EXCEPT
           !.result =
             SliceTo(SortByRelevance(
                       FilterByThreshold(Rescored(query, semantic.result),
                                         ThresholdOrDefault(similarity_threshold))),
                     FinalTopK(top_k)) ]

\* HybridRetriever.search, retriever.py:330-371
HybridSearch(idx, query, top_k, metadata_filter, similarity_threshold, providerOk, indexOk) ==
  HybridRerank(Search(idx, query, << FinalTopK(top_k) * 2 >>, metadata_filter,
                      <<HybridSemanticThreshold>>, providerOk, indexOk),
               query, top_k, similarity_threshold)

\* self.search of a RAGRetriever or of a HybridRetriever
SearchOf(hybrid, idx, query, top_k, metadata_filter, similarity_threshold, providerOk, indexOk) ==
  IF hybrid
  THEN HybridSearch(idx, query, top_k, metadata_filter, similarity_threshold, providerOk, indexOk)
  ELSE Search(idx, query, top_k, metadata_filter, similarity_threshold, providerOk, indexOk)

SourcePrefix == <<"[", "S", "o", "u", "r", "c", "e", ":", " ">>

\* f"[Source: {chunk.title}]\n{chunk.content}\n"
ChunkText(chunk) ==
  SourcePrefix \o chunk.title \o <<"]", "\n">> \o chunk.content \o <<"\n">>

\* f"[Source: {chunk.title}]\n{truncated_content}...\n"
TruncatedText(chunk, remaining_space) ==
  SourcePrefix \o chunk.title \o <<"]", "\n">> \o SliceTo(chunk.content, remaining_space)
    \o <<".", ".", ".", "\n">>

\* "\n".join(context_parts)
RECURSIVE JoinLines(_)
JoinLines(parts) ==
  IF parts = <<>> THEN <<>>
  ELSE IF Len(parts) = 1 THEN parts[1]
  ELSE parts[1] \o <<"\n">> \o JoinLines(Tail(parts))

Built(context_parts, used_chunks) ==
  [context_parts |-> context_parts, used_chunks |-> used_chunks]

Overflow_AlwaysTruncates(chunk, remaining_space, context_parts, used_chunks) ==
  Built(Append(context_parts, TruncatedText(chunk, remaining_space)),
        Append(used_chunks, chunk))

\* retriever.py:148-158: the chunk that does not fit
Overflow(chunk, remaining_space, context_parts, used_chunks) ==
  IF remaining_space > MeaningfulSpace
  THEN Built(Append(context_parts, TruncatedText(chunk, remaining_space)),
             Append(used_chunks, chunk))
  ELSE Built(context_parts, used_chunks)

\* the loop of retriever.py:143-162 from chunk i on
RECURSIVE BuildContext(_, _, _, _, _, _)
BuildContext(chunks, i, max_context_length, current_length, context_parts, used_chunks) ==
  IF i > Len(chunks) THEN Built(context_parts, used_chunks)
  ELSE IF current_length + Len(ChunkText(chunks[i])) > max_context_length
  THEN Overflow(chunks[i], max_context_length - current_length - TruncationNote,
                context_parts, used_chunks)
  ELSE BuildContext(chunks, i + 1, max_context_length,
                    current_length + Len(ChunkText(chunks[i])),
                    Append(context_parts, ChunkText(chunks[i])),
                    Append(used_chunks, chunks[i]))

\* retriever.py:209-217
Skipped(chunk, ref, exclude_same_document) ==
  \/ chunk.id = ref.id
  \/ exclude_same_document /\ chunk.document_id = ref.document_id

\* the loop of retriever.py:207-223 from result i on
RECURSIVE SimilarLoop(_, _, _, _, _, _)
SimilarLoop(results, i, ref, top_k, exclude_same_document, similar_chunks) ==
  IF i > Len(results) \/ (similar_chunks # <<>> /\ Len(similar_chunks) >= top_k)
  THEN similar_chunks
  ELSE IF Skipped(results[i].chunk, ref, exclude_same_document)
  THEN SimilarLoop(results, i + 1, ref, top_k, exclude_same_document, similar_chunks)
  ELSE SimilarLoop(results, i + 1, ref, top_k, exclude_same_document,
                   Append(similar_chunks,
                          WithScore(results[i].chunk, results[i].similarity_score)))

---------------------------------------------------------------------------
(* Retriever: calls *)

RQuery == <<"Q", " ", "k">>
RQueries == { RQuery, Blank, <<>> }
TopKs == { <<>>, <<0>>, <<1>> }

RetrieverReady == rcall = NoCall

\* the call frame of a search that came back with r
SearchDone(op, hybrid, query, top_k, metadata_filter, similarity_threshold, providerOk, indexOk, r) ==
  [ NoCall EXCEPT
      !.op = op, !.status = "returned", !.hybrid = hybrid,
      !.query = query, !.top_k = top_k, !.filter = metadata_filter,
      !.threshold = similarity_threshold,
      !.providerOk = providerOk, !.indexOk = indexOk,
      !.encoded = r.encoded, !.queried = r.queried, !.result = r.result ]

\* search(query, top_k, metadata_filter, similarity_threshold)
SearchCall(hybrid, query, top_k, metadata_filter, similarity_threshold, providerOk, indexOk) ==
  /\ RetrieverReady
  /\ rcall' = SearchDone("search", hybrid, query, top_k, metadata_filter,
                         similarity_threshold, providerOk, indexOk,
                         SearchOf(hybrid, index, query, top_k, metadata_filter,
                                  similarity_threshold, providerOk, indexOk))
  /\ UNCHANGED <<index, cacheVars, chunkVars, sideVars>>

\* search_by_document(query, document_id, top_k), retriever.py:117-118
SearchByDocumentCall(hybrid, query, document_id, top_k, providerOk, indexOk) ==
  /\ RetrieverReady
  /\ rcall' = SearchDone("search_by_document", hybrid, query, top_k, <<document_id>>,
                         <<>>, providerOk, indexOk,
                         SearchOf(hybrid, index, query, top_k, <<document_id>>, <<>>,
                                  providerOk, indexOk))
  /\ UNCHANGED <<index, cacheVars, chunkVars, sideVars>>

\* retriever.py:164-169
WithBuilt(f, max_context_length, built) ==
  [ f EXCEPT !.op = "get_context_for_query", !.max_len = max_context_length,
             !.text = JoinLines(built.context_parts), !.result = built.used_chunks ]

\* retriever.py:135-169, f the frame of the search of line 133
WithContext(f, max_context_length) ==
  IF f.result = <<>>
  THEN [f EXCEPT !.op = "get_context_for_query", !.max_len = max_context_length]
  ELSE WithBuilt(f, max_context_length,
                 BuildContext(f.result, 1, max_context_length, 0, <<>>, <<>>))

\* get_context_for_query(query, max_context_length, top_k), retriever.py:133-169
GetContextCall(hybrid, query, max_context_length, top_k, providerOk, indexOk) ==
  /\ RetrieverReady
  /\ rcall' = WithContext(
                SearchDone("search", hybrid, query, top_k, <<>>, <<>>, providerOk, indexOk,
                           SearchOf(hybrid, index, query, top_k, <<>>, <<>>,
                                    providerOk, indexOk)),
                max_context_length)
  /\ UNCHANGED <<index, cacheVars, chunkVars, sideVars>>

SimilarDone(ref, top_k, exclude_same_document, indexOk, queried, similar_chunks) ==
  [ NoCall EXCEPT
      !.op = "get_similar_chunks", !.status = "returned",
      !.ref = ref, !.top_k = <<top_k>>, !.exclude = exclude_same_document,
      !.indexOk = indexOk, !.queried = queried, !.result = similar_chunks ]

\* get_similar_chunks(reference_chunk, top_k, exclude_same_document),
\* retriever.py:187-230
GetSimilarCall(ref, top_k, exclude_same_document, indexOk) ==
  /\ RetrieverReady
  /\ rcall' =
       IF ref.embedding = <<>>
       THEN SimilarDone(ref, top_k, exclude_same_document, indexOk, FALSE, <<>>)
       ELSE SimilarDone(ref, top_k, exclude_same_document, indexOk, TRUE,
                        SimilarLoop(SearchSimilar(index, ref.embedding,
                                                  IF exclude_same_document
                                                  THEN top_k * 2 ELSE top_k,
                                                  <<>>, indexOk),
                                    1, ref, top_k, exclude_same_document, <<>>))
  /\ UNCHANGED <<index, cacheVars, chunkVars, sideVars>>

\* the caller takes the result
RetrieverReturn ==
  /\ rcall.status = "returned"
  /\ rcall' = NoCall
  /\ UNCHANGED <<index, cacheVars, chunkVars, sideVars>>

CacheUnused ==
  /\ store = {}
  /\ now = 0
  /\ frame = [w \in Workers |-> IdleFrame]
  /\ calls = 0
  /\ last = NoLast

InitRetriever ==
  /\ CacheUnused
  /\ index \in UNION { [1..n -> ChunkKinds] : n \in 0..MaxChunks }
  /\ rcall = NoCall
  /\ chunker = NoChunking
  /\ health = NoHealth
  /\ mem = NoMem
  /\ batch = NoBatch

NextRetriever ==
  \/ \E hybrid \in BOOLEAN, query \in RQueries, top_k \in TopKs, metadata_filter \in { <<>>, <<"d1">> },
        similarity_threshold \in { <<>>, <<0>>, <<9>> }, providerOk \in BOOLEAN, indexOk \in BOOLEAN :
       SearchCall(hybrid, query, top_k, metadata_filter, similarity_threshold,
                  providerOk, indexOk)
  \/ \E hybrid \in BOOLEAN, query \in RQueries, document_id \in { "d1", "d2" }, top_k \in TopKs,
        providerOk \in BOOLEAN, indexOk \in BOOLEAN :
       SearchByDocumentCall(hybrid, query, document_id, top_k, providerOk, indexOk)
  \/ \E hybrid \in BOOLEAN, query \in RQueries, max_context_length \in { 30, 170, 4000 },
        top_k \in TopKs, providerOk \in BOOLEAN, indexOk \in BOOLEAN :
       GetContextCall(hybrid, query, max_context_length, top_k, providerOk, indexOk)
  \/ \E i \in 1..Len(index), embedding \in { <<>>, EncodeText(RQuery, TRUE), ZeroVector }, top_k \in {1, SimilarTopK},
        exclude_same_document \in BOOLEAN, indexOk \in BOOLEAN :
       GetSimilarCall([id |-> i, document_id |-> index[i].document_id,
                       embedding |-> embedding],
                      top_k, exclude_same_document, indexOk)
  \/ RetrieverReturn

SpecRetriever == InitRetriever /\ [][NextRetriever]_vars

---------------------------------------------------------------------------
(* Retriever: properties *)

SearchOps == {"search", "search_by_document"}
QueryOps == SearchOps \cup {"get_context_for_query"}

Ids(chunks) == { chunks[i].id : i \in 1..Len(chunks) }

\* the threshold a search call applies, in tenths
EffectiveThreshold(f) ==
  IF f.threshold = <<>> THEN SimilarityThreshold ELSE f.threshold[1]

NonIncreasing(chunks) ==
  \A i, j \in 1..Len(chunks) :
    i < j => ScoreGE(chunks[i].relevance_score, chunks[j].relevance_score)

\* C11: every search, semantic or hybrid, returns at most top_k chunks (the
\* default when top_k is not given), each with a relevance_score at or above
\* the effective threshold, in non-increasing order of score.
C11_SearchPostconditions ==
  rcall.op \in SearchOps =>
    /\ \A i \in 1..Len(rcall.result) :
         ScoreGE(rcall.result[i].relevance_score, Tenths(EffectiveThreshold(rcall)))
    /\ Len(rcall.result) <= (IF rcall.top_k = <<>> THEN default_top_k ELSE rcall.top_k[1])
    /\ NonIncreasing(rcall.result)

\* the search of the frame f run again with threshold t (in tenths)
SearchAgain(f, t) ==
  SearchOf(f.hybrid, index, f.query, f.top_k, f.filter, <<t>>, f.providerOk, f.indexOk).result

LowerThresholds == { 0 - 5, 0, 5, 7 }

\* C12: on the same index, query, top_k and filter, every chunk a search
\* returns at its threshold is also returned at every lower threshold.
C12_ThresholdMonotone ==
  rcall.op \in SearchOps =>
    \A t1 \in LowerThresholds :
      t1 < EffectiveThreshold(rcall) =>
        Ids(rcall.result) \subseteq Ids(SearchAgain(rcall, t1))

\* a search that returns some chunk but not every chunk a lower threshold lets
\* through
C12_Witness ==
  /\ rcall.op = "search" /\ rcall.result # <<>>
  /\ \E t1 \in LowerThresholds :
       /\ t1 < EffectiveThreshold(rcall)
       /\ Ids(rcall.result) # Ids(SearchAgain(rcall, t1))

\* C13: a retrieval during which the embedding provider or the vector index
\* fails returns the empty result: no chunks and no context text.
C13_FailsClosed ==
  (rcall.status = "returned" /\ (~rcall.providerOk \/ ~rcall.indexOk)) =>
    rcall.result = <<>> /\ rcall.text = <<>>

OnlyWhitespace(text) == \A i \in 1..Len(text) : IsSpace(text[i])

\* C14: for an empty or whitespace-only query, search (semantic and hybrid)
\* returns the empty list and get_context_for_query the empty text with no
\* chunks, and neither the embedding provider nor the index is called.
C14_BlankQuery ==
  (rcall.op \in QueryOps /\ OnlyWhitespace(rcall.query)) =>
    /\ rcall.status = "returned"
    /\ rcall.result = <<>> /\ rcall.text = <<>>
    /\ ~rcall.encoded /\ ~rcall.queried

\* a whitespace query on an index whose chunks the query of the model would
\* retrieve
C14_Witness ==
  /\ rcall.op \in QueryOps /\ rcall.status = "returned"
  /\ rcall.query # <<>> /\ OnlyWhitespace(rcall.query)
  /\ SearchOf(rcall.hybrid, index, RQuery, rcall.top_k, rcall.filter, rcall.threshold,
              TRUE, TRUE).result # <<>>

\* C15: the relevance_score of every chunk a retrieval returns lies in [0,1].
C15_ScoreInUnitInterval ==
  \A i \in 1..Len(rcall.result) :
    /\ rcall.result[i].relevance_score.n >= 0
    /\ rcall.result[i].relevance_score.n <= rcall.result[i].relevance_score.d

\* the ranked result of the search a get_context_for_query call starts with
RankedFor(f) ==
  SearchOf(f.hybrid, index, f.query, f.top_k, <<>>, <<>>, f.providerOk, f.indexOk).result

Header(chunk) == <<"[", "S", "o", "u", "r", "c", "e", ":", " ">> \o chunk.title \o <<"]", "\n">>
Whole(chunk) == Header(chunk) \o chunk.content \o <<"\n">>

RECURSIVE WholeLength(_, _)
WholeLength(chunks, m) ==
  IF m = 0 THEN 0 ELSE Len(Whole(chunks[m])) + WholeLength(chunks, m - 1)

RECURSIVE WholeJoined(_, _)
WholeJoined(chunks, m) ==
  IF m = 0 THEN <<>>
  ELSE IF m = 1 THEN Whole(chunks[1])
  ELSE WholeJoined(chunks, m - 1) \o <<"\n">> \o Whole(chunks[m])

\* a copy of the chunk cut to `room` characters of content and marked
IsTruncatedCopy(text, chunk, room) ==
  text = Header(chunk) \o SubSeq(chunk.content, 1, Min(room, Len(chunk.content)))
           \o <<".", ".", ".", "\n">>

Suffix(text, from) == SubSeq(text, from, Len(text))

\* C20: the context is built from a prefix of the ranked search result, in
\* rank order: m chunks whole, each under its source header, as long as they
\* fit in max_context_length; the first chunk that does not fit is appended
\* once, truncated and ellipsis-marked, only if more than MeaningfulSpace
\* characters remain after the truncation note, and no later chunk is used.
C20_ContextPrefix ==
  rcall.op = "get_context_for_query" =>
    LET ranked == RankedFor(rcall)
        used == rcall.result
    IN \E m \in 0..Len(ranked) :
         /\ WholeLength(ranked, m) <= rcall.max_len
         /\ IF m = Len(ranked)
            THEN used = ranked /\ rcall.text = WholeJoined(ranked, m)
            ELSE /\ WholeLength(ranked, m + 1) > rcall.max_len
                 /\ IF rcall.max_len - WholeLength(ranked, m) - TruncationNote > MeaningfulSpace
                    THEN /\ used = SubSeq(ranked, 1, m + 1)
                         /\ SubSeq(rcall.text, 1, Len(WholeJoined(ranked, m)))
                              = WholeJoined(ranked, m)
                         /\ IsTruncatedCopy(
                              Suffix(rcall.text,
                                     Len(WholeJoined(ranked, m)) + (IF m = 0 THEN 1 ELSE 2)),
                              ranked[m + 1],
                              rcall.max_len - WholeLength(ranked, m) - TruncationNote)
                    ELSE used = SubSeq(ranked, 1, m) /\ rcall.text = WholeJoined(ranked, m)

\* a context of one whole chunk and a truncated copy of the next
C20_Witness ==
  /\ rcall.op = "get_context_for_query"
  /\ Len(rcall.result) = 2
  /\ WholeLength(rcall.result, 2) > rcall.max_len
  /\ SubSeq(rcall.text, 1, Len(Whole(rcall.result[1]))) = Whole(rcall.result[1])

\* the semantic and the combined score of the i-th chunk of the index for the
\* query of the call f
SemanticOf(f, i) ==
  Tenths(10 - DistanceFrom(index[i], EncodeText(f.query, f.providerOk)))
CombinedOf(f, i) ==
  HybridScore(SemanticOf(f, i), OverlapScore(Terms(f.query), Terms(index[i].content)))

\* C21: in a hybrid search with effective threshold t the first, semantic
\* pass is no stricter than t: a chunk whose semantic similarity and combined
\* score both reach t is not lost to the first pass, so it is in the result
\* unless the result is already full.
C21_TwoPassThreshold ==
  ( /\ rcall.op = "search" /\ rcall.hybrid /\ rcall.status = "returned"
    /\ rcall.providerOk /\ rcall.indexOk /\ ~OnlyWhitespace(rcall.query) ) =>
    \A i \in 1..Len(index) :
      ( /\ Matches(index[i], rcall.filter)
        /\ ScoreGE(SemanticOf(rcall, i), Tenths(EffectiveThreshold(rcall)))
        /\ ScoreGE(CombinedOf(rcall, i), Tenths(EffectiveThreshold(rcall))) ) =>
        \/ i \in Ids(rcall.result)
        \/ Len(rcall.result) >= FinalTopK(rcall.top_k)

\* C25: the context text get_context_for_query returns has at most
\* max_context_length characters, separators, headers and ellipsis included.
C25_ContextLength ==
  rcall.op = "get_context_for_query" => Len(rcall.text) <= rcall.max_len

---------------------------------------------------------------------------
(* Chunker: PDFProcessor.chunk_text and _find_break_point.                  *)
(* Positions are Python's: the first character of a text is at position 0.  *)

MaxTextLen == 4

\* text[i]
CharAt(text, i) == text[i + 1]

\* text[a:b] for 0 <= a
Slice(text, a, b) == SubSeq(text, a + 1, Min(b, Len(text)))

\* the largest position of a non-empty set of positions: the first one a
\* scan from end - 1 down to start meets
LastOf(positions) == CHOOSE i \in positions : \A j \in positions : j <= i

\* pdf_processor.py:239-241
ParagraphBreaks(text, start, end) ==
  { i \in start..(end - 1) : Slice(text, i, i + 2) = <<"\n", "\n">> }

\* pdf_processor.py:245-249
SentenceBreaks(text, start, end) ==
  { i \in start..(end - 1) :
      /\ CharAt(text, i) \in {".", "!", "?"}
      /\ i + 1 < Len(text)
      /\ IsSpace(CharAt(text, i + 1)) }

\* pdf_processor.py:252-254
WordBreaks(text, start, end) ==
  { i \in start..(end - 1) : IsSpace(CharAt(text, i)) }

\* variant: any whitespace is taken before a paragraph or sentence break
FindBreakPoint_WordFirst(text, start, end) ==
  IF WordBreaks(text, start, end) # {}
  THEN LastOf(WordBreaks(text, start, end)) + 1
  ELSE end

\* _find_break_point(text, start, end): paragraph, then sentence, then word
\* boundary, else the end itself
FindBreakPoint(text, start, end) ==
  IF ParagraphBreaks(text, start, end) # {}
  THEN LastOf(ParagraphBreaks(text, start, end)) + 2
  ELSE IF SentenceBreaks(text, start, end) # {}
  THEN LastOf(SentenceBreaks(text, start, end)) + 1
  ELSE IF WordBreaks(text, start, end) # {}
  THEN LastOf(WordBreaks(text, start, end)) + 1
  ELSE end

\* pdf_processor.py:203-204
BreakOrEnd(break_point, start, end) ==
  IF break_point > start THEN break_point ELSE end

\* pdf_processor.py:194-204: the end of the window that starts at start
WindowEnd(text, start, chunk_size, chunk_overlap) ==
  IF start + chunk_size < Len(text)
  THEN BreakOrEnd(FindBreakPoint(text,
                                 Max(start + chunk_size - chunk_overlap, start),
                                 start + chunk_size),
                  start, start + chunk_size)
  ELSE start + chunk_size

\* pdf_processor.py:207-211
KeepChunk(chunks, chunk, min_chunk_size) ==
  IF Len(chunk) >= min_chunk_size THEN Append(chunks, chunk) ELSE chunks

\* variant: the short text is returned whatever its length
ShortInput_KeepsAll(text, min_chunk_size) == <<text>>

\* pdf_processor.py:183-187: the stripped text is no longer than chunk_size
ShortInput(text, min_chunk_size) ==
  IF Len(text) >= min_chunk_size THEN <<text>> ELSE <<>>

\* the operand types for which Python defines <=; an int against a list
\* raises TypeError
LeSupported(left, right) == left = right

\* pdf_processor.py:220: `start <= chunks and len(chunks) > 0` compares the
\* int start with the list chunks
ProgressCheckRaises == ~LeSupported("int", "list")

\* pdf_processor.py:217-222, were the comparison defined: start against the
\* number of chunks
NextStart(end, chunk_overlap, chunks) ==
  IF end - chunk_overlap <= Len(chunks) /\ Len(chunks) > 0
  THEN end - (chunk_overlap \div 2)
  ELSE end - chunk_overlap

Finished(c, status, chunks) ==
  [ c EXCEPT !.pc = "done", !.status = status, !.chunks = chunks ]

\* pdf_processor.py:176-190, text being the stripped argument
Entered(c, text) ==
  IF text = <<>>
  THEN Finished(c, "returned", <<>>)
  ELSE IF Len(text) <= c.chunk_size
  THEN Finished([ c EXCEPT !.text = text ], "returned",
                ShortInput(text, c.min_chunk_size))
  ELSE [ c EXCEPT !.pc = "loop", !.status = "running", !.text = text,
                  !.start = 0, !.chunks = <<>> ]

\* chunk_text(text): lines 176-190
ChunkTextCall(text) ==
  /\ chunker.pc = "idle"
  /\ chunker' = Entered([ chunker EXCEPT !.arg = text ], StripWs(text))
  /\ UNCHANGED <<cacheVars, retrVars, sideVars>>

\* pdf_processor.py:206-222: the rest of an iteration whose window ends at end
Advanced(c, end, chunks) ==
  IF end >= Len(c.text)
  THEN Finished([ c EXCEPT !.end = end ], "returned", chunks)
  ELSE IF ProgressCheckRaises
  THEN Finished([ c EXCEPT !.end = end, !.start = end - c.chunk_overlap ],
                "raised", chunks)
  ELSE [ c EXCEPT !.end = end, !.chunks = chunks,
                  !.start = NextStart(end, c.chunk_overlap, chunks) ]

WithWindow(c, end) ==
  Advanced([ c EXCEPT !.windows = Append(@, <<c.start, end>>) ], end,
           KeepChunk(c.chunks, StripWs(Slice(c.text, c.start, end)),
                     c.min_chunk_size))

\* one iteration of `while start < len(text)`: lines 192-222
ChunkLoop ==
  /\ chunker.pc = "loop"
  /\ chunker' =
       IF chunker.start < Len(chunker.text)
       THEN WithWindow(chunker,
                       WindowEnd(chunker.text, chunker.start,
                                 chunker.chunk_size, chunker.chunk_overlap))
       ELSE Finished(chunker, "returned", chunker.chunks)
  /\ UNCHANGED <<cacheVars, retrVars, sideVars>>

\* the call is over: the list was returned, or the TypeError left chunk_text
ChunkerReturn ==
  /\ chunker.pc = "done"
  /\ chunker' = [ NoChunking EXCEPT
                    !.chunk_size = chunker.chunk_size,
                    !.chunk_overlap = chunker.chunk_overlap,
                    !.min_chunk_size = chunker.min_chunk_size ]
  /\ UNCHANGED <<cacheVars, retrVars, sideVars>>

\* PDFProcessor(chunk_size, chunk_overlap, min_chunk_size)
InitChunker ==
  /\ CacheUnused
  /\ index = <<>>
  /\ rcall = NoCall
  /\ health = NoHealth
  /\ mem = NoMem
  /\ batch = NoBatch
  /\ \E chunk_size \in {2, 3}, chunk_overlap \in {0, 1, 2}, min_chunk_size \in {0, 2} :
       chunker = [ NoChunking EXCEPT
                     !.chunk_size = chunk_size,
                     !.chunk_overlap = chunk_overlap,
                     !.min_chunk_size = min_chunk_size ]

NextChunker ==
  \/ \E text \in UNION { [1..n -> {"a", " ", ".", "\n"}] : n \in 0..MaxTextLen } : ChunkTextCall(text)
  \/ ChunkLoop
  \/ ChunkerReturn

SpecChunker == InitChunker /\ [][NextChunker]_vars

---------------------------------------------------------------------------
(* Chunker: properties                                                      *)

\* the parameters meet chunk_size > overlap >= 0 and min_chunk_size <= chunk_size
ChunkerPreconditions ==
  /\ chunker.chunk_size > chunker.chunk_overlap
  /\ chunker.chunk_overlap >= 0
  /\ chunker.min_chunk_size <= chunker.chunk_size

\* the call in progress was given a text longer than chunk_size
LongInput ==
  /\ chunker.pc # "idle"
  /\ Len(StripWs(chunker.arg)) > chunker.chunk_size

ShortInputCall ==
  /\ chunker.pc = "done"
  /\ Len(StripWs(chunker.arg)) <= chunker.chunk_size

StartsIncrease(windows) ==
  \A k \in 1..(Len(windows) - 1) : windows[k + 1][1] > windows[k][1]

\* C16: for a text longer than chunk_size and parameters with
\* chunk_size > overlap >= 0 and min_chunk_size <= chunk_size, every window
\* start chunk_text computes is strictly greater than the one before, and the
\* call ends by returning its list of chunks (it leaves through no error).
C16_ForwardProgress ==
  (LongInput /\ ChunkerPreconditions) =>
    /\ chunker.status # "raised"
    /\ StartsIncrease(chunker.windows)

\* C17: when the stripped text is no longer than chunk_size, chunk_text
\* returns the stripped text as its only chunk if that text is not blank and
\* has at least min_chunk_size characters, and the empty list otherwise.
C17_ShortInputRule ==
  ShortInputCall =>
    /\ chunker.status = "returned"
    /\ chunker.chunks =
         IF /\ StripWs(chunker.arg) # <<>>
            /\ Len(StripWs(chunker.arg)) >= chunker.min_chunk_size
         THEN << StripWs(chunker.arg) >>
         ELSE <<>>

\* a padded text that survives as one chunk, and one dropped as too short
C17_Witness ==
  /\ ShortInputCall
  /\ chunker.arg # StripWs(chunker.arg)
  /\ chunker.chunks = << StripWs(chunker.arg) >>
  /\ chunker.min_chunk_size = 2

Covered(c) ==
  { p \in 0..(Len(c.text) - 1) :
      \E k \in 1..Len(c.windows) :
        /\ c.windows[k][1] <= p
        /\ p < c.windows[k][2]
        /\ Len(StripWs(Slice(c.text, c.windows[k][1], c.windows[k][2])))
             >= c.min_chunk_size }

\* C19: chunk_text, given an input longer than chunk_size, returns chunks
\* whose source ranges cover every non-whitespace position of the stripped
\* input.
C19_ChunkCoverage ==
  (LongInput /\ ChunkerPreconditions /\ chunker.pc = "done") =>
    /\ chunker.status = "returned"
    /\ \A p \in 0..(Len(chunker.text) - 1) :
         IsSpace(CharAt(chunker.text, p)) \/ p \in Covered(chunker)

\* position i of the text starts a double newline
ParagraphAt(text, i) ==
  i + 1 < Len(text) /\ text[i + 1] = "\n" /\ text[i + 2] = "\n"

\* position i holds sentence-ending punctuation followed by whitespace
SentenceAt(text, i) ==
  i + 1 < Len(text) /\ text[i + 1] \in {".", "!", "?"} /\ text[i + 2] \in {" ", "\n"}

SpaceAt(text, i) == text[i + 1] \in {" ", "\n"}

\* the first window of the run: it starts at 0 and is not the final one
FirstWindow == LongInput /\ ChunkerPreconditions /\ chunker.windows # <<>>

\* the positions [end - overlap, end) of the first window's raw end
BreakRange == (chunker.chunk_size - chunker.chunk_overlap)..(chunker.chunk_size - 1)

\* C29: a non-final window ends just after the last paragraph break that
\* starts in [end - overlap, end) if there is one, otherwise just after the
\* last sentence-ending punctuation followed by whitespace in that range,
\* otherwise just after the last whitespace in it, otherwise at the raw end.
C29_BreakPriority ==
  FirstWindow =>
    IF \E i \in BreakRange : ParagraphAt(chunker.text, i)
    THEN \E i \in BreakRange :
           /\ ParagraphAt(chunker.text, i)
           /\ \A j \in BreakRange : ParagraphAt(chunker.text, j) => j <= i
           /\ chunker.windows[1][2] = i + 2
    ELSE IF \E i \in BreakRange : SentenceAt(chunker.text, i)
    THEN \E i \in BreakRange :
           /\ SentenceAt(chunker.text, i)
           /\ \A j \in BreakRange : SentenceAt(chunker.text, j) => j <= i
           /\ chunker.windows[1][2] = i + 1
    ELSE IF \E i \in BreakRange : SpaceAt(chunker.text, i)
    THEN \E i \in BreakRange :
           /\ SpaceAt(chunker.text, i)
           /\ \A j \in BreakRange : SpaceAt(chunker.text, j) => j <= i
           /\ chunker.windows[1][2] = i + 1
    ELSE chunker.windows[1][2] = chunker.chunk_size

\* a window cut after a sentence end although a later whitespace is in range
C29_Witness ==
  /\ FirstWindow
  /\ \E i, j \in BreakRange :
       /\ SentenceAt(chunker.text, i) /\ SpaceAt(chunker.text, j) /\ i < j
       /\ chunker.windows[1][2] = i + 1

---------------------------------------------------------------------------
(* HealthChecker (src/src/utils/health.py).  A check is registered under a
   name, here a number; self.checks is a dict, here the sequence of its items
   in insertion order.  What a check function gives when it is run is an
   input of get_health.  Of a ServiceCheck the name and the status are kept;
   message, duration_ms, last_success and error_count, which the overall
   status does not read, are left out, as are the uptime and the metrics of
   the response. *)

MaxChecks == 2

\* add_check: self.checks[name] = {...}; a name already there keeps its place
Registered(checks, name, critical) ==
  IF \E i \in 1..Len(checks) : checks[i].name = name
  THEN [i \in 1..Len(checks) |->
          IF checks[i].name = name THEN [name |-> name, critical |-> critical] ELSE checks[i]]
  ELSE Append(checks, [name |-> name, critical |-> critical])

\* lines 118-129: the status read off the result of the check function, which
\* is a bool, a (success, message) tuple, a dict with or without a status, or
\* anything else
ParseResult(result) ==
  CASE result \in {"True", "tuple_true", "dict_healthy", "dict_no_status", "None"} -> "healthy"
    [] result \in {"False", "tuple_false", "dict_unhealthy"} -> "unhealthy"
    [] result = "dict_degraded" -> "degraded"
    [] OTHER -> "no_status"

\* the except branch (lines 147-160) is taken when the function raises, and
\* when ServiceCheck (line 138) rejects a status that is no HealthStatus
Raises(result) ==
  result = "raises" \/ ParseResult(result) \notin {"healthy", "degraded", "unhealthy"}

\* run_check: the ServiceCheck returned for one check
RunCheck(check_info, result) ==
  [ name |-> check_info.name,
    status |-> IF Raises(result) THEN "unhealthy" ELSE ParseResult(result) ]

\* lines 182-190: the number of unhealthy results of the checks that are
\* critical (or of those that are not), self.checks[name]["critical"]
Failures(check_results, checks, critical) ==
  Cardinality({ i \in 1..Len(check_results) :
                  /\ check_results[i].status = "unhealthy"
                  /\ (\E j \in 1..Len(checks) :
                        checks[j].name = check_results[i].name /\ checks[j].critical) = critical })

\* variant: any failure makes the service unhealthy
OverallStatus_AnyFailure(overall_status, critical_failures, non_critical_failures) ==
  IF critical_failures + non_critical_failures > 0 THEN "unhealthy" ELSE overall_status

\* lines 196-199
OverallStatus(overall_status, critical_failures, non_critical_failures) ==
  IF critical_failures > 0 THEN "unhealthy"
  ELSE IF non_critical_failures > 0 /\ overall_status = "healthy" THEN "degraded"
  ELSE overall_status

\* lines 178-221: the HealthResponse, without the uptime and the metrics;
\* overall_status is DEGRADED after the loop when a result is (lines 191-193)
Response(check_results, checks, results) ==
  [ status |-> OverallStatus(IF \E i \in 1..Len(check_results) : check_results[i].status = "degraded"
                             THEN "degraded" ELSE "healthy",
                             Failures(check_results, checks, TRUE),
                             Failures(check_results, checks, FALSE)),
    checks |-> check_results,
    returned |-> results ]

\* the caller is between two calls
HealthReady == health.response.status = "none"

AddCheck(name, critical) ==
  /\ HealthReady
  /\ health' = [health EXCEPT !.checks = Registered(health.checks, name, critical)]
  /\ UNCHANGED <<cacheVars, retrVars, chunkVars, mem, batch>>

\* get_health: lines 172-175 run the checks in the order of self.checks;
\* results[name] is what the check of that name does, and a check that is not
\* registered is not run
GetHealth(results) ==
  /\ HealthReady
  /\ \A name \in 1..MaxChecks :
       (\A i \in 1..Len(health.checks) : health.checks[i].name # name) => results[name] = "None"
  /\ health' =
       [ health EXCEPT
           !.response = Response([i \in 1..Len(health.checks) |->
                                    RunCheck(health.checks[i], results[health.checks[i].name])],
                                 health.checks, results) ]
  /\ UNCHANGED <<cacheVars, retrVars, chunkVars, mem, batch>>

\* the response is handed to the caller
HealthReturn ==
  /\ ~HealthReady
  /\ health' = [health EXCEPT !.response = NoHealth.response]
  /\ UNCHANGED <<cacheVars, retrVars, chunkVars, mem, batch>>

InitHealth ==
  /\ CacheUnused
  /\ index = <<>>
  /\ rcall = NoCall
  /\ chunker = NoChunking
  /\ health = NoHealth
  /\ mem = NoMem
  /\ batch = NoBatch

NextHealth ==
  \/ \E name \in 1..MaxChecks, critical \in BOOLEAN : AddCheck(name, critical)
  \/ \E results \in [1..MaxChecks -> {"True", "False", "tuple_true", "tuple_false", "dict_healthy", "dict_degraded", "dict_unhealthy", "dict_no_status", "dict_bad_status", "None", "raises"}] :
       GetHealth(results)
  \/ HealthReturn

SpecHealth == InitHealth /\ [][NextHealth]_vars

---------------------------------------------------------------------------
(* InMemoryCache (src/src/utils/cache.py).  self.cache is a dict from key to
   (value, expires_at), here the sequence of its items in insertion order;
   time.time() is the clock now.  out is what the last call returned. *)

MaxSize == 2

\* the position of a key in the dict, 0 when it is not there
MemIndex(cache, key) ==
  IF \E i \in 1..Len(cache) : cache[i].key = key
  THEN CHOOSE i \in 1..Len(cache) : cache[i].key = key
  ELSE 0

\* del self.cache[key] for each key of a set
MemRemove(cache, keys) == SelectSeq(cache, LAMBDA e : e.key \notin keys)

\* InMemoryCache._cleanup_lru, lines 571-584: the len // 4 items that the
\* stable sort by expires_at puts first are deleted
MemCleanupLru(cache, max_size) ==
  IF Len(cache) < max_size THEN cache
  ELSE MemRemove(cache,
         { cache[i].key : i \in { j \in 1..Len(cache) :
             Cardinality({ k \in 1..Len(cache) :
                             \/ cache[k].expires_at < cache[j].expires_at
                             \/ cache[k].expires_at = cache[j].expires_at /\ k < j })
               < Len(cache) \div 4 } })

\* self.cache[key] = (value, expires_at): a key already there keeps its place
MemStore(cache, key, value, expires_at) ==
  IF MemIndex(cache, key) # 0
  THEN [cache EXCEPT ![MemIndex(cache, key)] = [key |-> key, value |-> value, expires_at |-> expires_at]]
  ELSE Append(cache, [key |-> key, value |-> value, expires_at |-> expires_at])

\* lines 509-528
MemGet(key) ==
  /\ mem.max_size > 0
  /\ IF MemIndex(mem.cache, key) = 0
     THEN mem' = [mem EXCEPT !.out = <<"None">>]
     ELSE IF now > mem.cache[MemIndex(mem.cache, key)].expires_at
     THEN mem' = [mem EXCEPT !.cache = MemRemove(mem.cache, {key}), !.out = <<"None">>]
     ELSE mem' = [mem EXCEPT !.out = <<mem.cache[MemIndex(mem.cache, key)].value>>]
  /\ UNCHANGED <<cacheVars, retrVars, chunkVars, health, batch>>

\* lines 530-545
MemPut(key, value, ttl_seconds) ==
  /\ mem.max_size > 0
  /\ mem' = [mem EXCEPT
               !.cache = MemStore(IF Len(mem.cache) >= mem.max_size
                                  THEN MemCleanupLru(mem.cache, mem.max_size)
                                  ELSE mem.cache,
                                  key, value, now + TtlOrDefault(ttl_seconds)),
               !.out = <<"None">>]
  /\ UNCHANGED <<cacheVars, retrVars, chunkVars, health, batch>>

\* lines 547-559
MemDelete(key) ==
  /\ mem.max_size > 0
  /\ mem' = [mem EXCEPT !.cache = MemRemove(mem.cache, {key}),
                        !.out = IF MemIndex(mem.cache, key) # 0 THEN <<"True">> ELSE <<"False">>]
  /\ UNCHANGED <<cacheVars, retrVars, chunkVars, health, batch>>

\* lines 561-569
MemClear ==
  /\ mem.max_size > 0
  /\ mem' = [mem EXCEPT !.cache = <<>>, !.out = <<Len(mem.cache)>>]
  /\ UNCHANGED <<cacheVars, retrVars, chunkVars, health, batch>>

InitMem ==
  /\ CacheUnused
  /\ index = <<>>
  /\ rcall = NoCall
  /\ chunker = NoChunking
  /\ health = NoHealth
  /\ \E max_size \in 1..MaxSize : mem = [NoMem EXCEPT !.max_size = max_size]
  /\ batch = NoBatch

NextMem ==
  \/ \E key \in {"a", "b", "c", "d"} : MemGet(key)
  \/ \E key \in {"a", "b", "c", "d"}, ttl_seconds \in { <<>>, <<1>> } : MemPut(key, "v", ttl_seconds)
  \/ \E key \in {"a", "b", "c", "d"} : MemDelete(key)
  \/ MemClear
  \/ Tick

SpecMem == InitMem /\ [][NextMem]_vars

---------------------------------------------------------------------------
(* EmbeddingsService.encode_batch (src/src/rag/embeddings.py).  failing is
   the set of positions whose text the sentence-transformers model cannot
   encode: model.encode raises on a sub-batch that holds one of them. *)

MaxBatch == 3

\* lines 91-96: the positions of the texts that are not blank
TextIndices(texts) == { i \in 1..Len(texts) : Strip(texts[i]) # <<>> }

\* lines 102-125: model.encode raises on some sub-batch, inside the one try
\* around the loop; the k-th non-blank text is in sub-batch (k - 1) // batch_size
EncodeRaises(texts, batch_size, failing) ==
  \E b \in 0..Len(texts) : \E i \in TextIndices(texts) :
    /\ Cardinality({ j \in TextIndices(texts) : j < i }) \div batch_size = b
    /\ i \in failing

\* encode_batch, lines 77-130
EncodeBatch(texts, batch_size, failing) ==
  IF texts = <<>> THEN <<>>
  ELSE IF TextIndices(texts) = {} THEN [i \in 1..Len(texts) |-> ZeroVector]
  ELSE IF EncodeRaises(texts, batch_size, failing) THEN [i \in 1..Len(texts) |-> ZeroVector]
  ELSE [i \in 1..Len(texts) |-> IF i \in TextIndices(texts) THEN ModelEncode(texts[i]) ELSE ZeroVector]

EncodeBatchCall(texts, batch_size, failing) ==
  /\ batch.status = "idle"
  /\ failing \subseteq 1..Len(texts)
  /\ batch' = [ status |-> "returned", texts |-> texts, batch_size |-> batch_size,
                failing |-> failing, result |-> EncodeBatch(texts, batch_size, failing) ]
  /\ UNCHANGED <<cacheVars, retrVars, chunkVars, health, mem>>

\* the list is handed to the caller
BatchReturn ==
  /\ batch.status = "returned"
  /\ batch' = NoBatch
  /\ UNCHANGED <<cacheVars, retrVars, chunkVars, health, mem>>

InitBatch ==
  /\ CacheUnused
  /\ index = <<>>
  /\ rcall = NoCall
  /\ chunker = NoChunking
  /\ health = NoHealth
  /\ mem = NoMem
  /\ batch = NoBatch

NextBatch ==
  \/ \E texts \in UNION { [1..n -> { <<"q">>, <<"k">>, Blank }] : n \in 0..MaxBatch }, batch_size \in {1, 2, 32}, failing \in SUBSET (1..MaxBatch) :
       EncodeBatchCall(texts, batch_size, failing)
  \/ BatchReturn

SpecBatch == InitBatch /\ [][NextBatch]_vars

---------------------------------------------------------------------------
(* Properties of get_health *)

\* what the i-th registered check did in the run that gave the response
ReturnedAt(i) == health.response.returned[health.checks[i].name]

\* the overall status when the results in U make a check unhealthy and those
\* in D make it degraded
StatusBy(U, D) ==
  IF \E i \in 1..Len(health.checks) : health.checks[i].critical /\ ReturnedAt(i) \in U
  THEN "unhealthy"
  ELSE IF \/ \E i \in 1..Len(health.checks) : ~health.checks[i].critical /\ ReturnedAt(i) \in U
          \/ \E i \in 1..Len(health.checks) : ReturnedAt(i) \in D
  THEN "degraded"
  ELSE "healthy"

OneResultPerCheck ==
  /\ Len(health.response.checks) = Len(health.checks)
  /\ \A i \in 1..Len(health.checks) : health.response.checks[i].name = health.checks[i].name

---------------------------------------------------------------------------
(* Properties of InMemoryCache *)

\* C27: after any sequence of put, get, delete and clear the number of stored
\* entries never exceeds max_size, for every max_size >= 1.
C27_Capacity == Len(mem.cache) <= mem.max_size

---------------------------------------------------------------------------
(* Properties of encode_batch *)

\* C30: encode_batch returns one vector per input text, in input order; a
\* blank item and an item the model fails on get the zero vector, every other
\* item of the batch keeps its real embedding.
C30_PerItemFallback ==
  batch.status = "returned" =>
    /\ Len(batch.result) = Len(batch.texts)
    /\ \A i \in 1..Len(batch.texts) :
         /\ Len(batch.result[i]) = EmbeddingDim
         /\ batch.result[i] = IF Strip(batch.texts[i]) = <<>> \/ i \in batch.failing
                              THEN ZeroVector
                              ELSE ModelEncode(batch.texts[i])

====
